---- MODULE Spec2Model ----
(***************************************************************************)
(* Model of tools/config_generator.py: the PlatformConfig data model, the  *)
(* platform registry of ConfigGenerator, the four artifact writers, the    *)
(* JSON codec and the orchestrator main().                                 *)
(*                                                                         *)
(* A Python value is a record tagged by `py`:                              *)
(*   enum       a PlatformType member, val = its declared string value     *)
(*   str/int/bool   scalars                                                *)
(*   dict       keys = insertion order, val = the mapping                  *)
(*   dataclass  cls = the class, val = the attribute mapping               *)
(*   none       None                                                       *)
(* A JSON text is a tree tagged by `js`; a text that stops in the middle   *)
(* (a truncated write, a malformed input) holds a "cut".                   *)
(***************************************************************************)
EXTENDS Integers, Sequences, FiniteSets, TLC

VARIABLES platforms, fs, dirs, pc, args, cur, custom_config, ret, stdout, faults

vars == <<platforms, fs, dirs, pc, args, cur, custom_config, ret, stdout, faults>>

\* How many times the filesystem may fail a directory creation, an open or a write.
MaxIOFaults == 1

(***************************************************************************)
(* Python values                                                           *)
(***************************************************************************)
PyEnum(v) == [py |-> "enum", val |-> v]
PyStr(s) == [py |-> "str", val |-> s]
PyInt(n) == [py |-> "int", val |-> n]
PyBool(b) == [py |-> "bool", val |-> b]
PyNone == [py |-> "none"]
PyDict(ks, m) == [py |-> "dict", keys |-> ks, val |-> m]
PyDataClass(c, m) == [py |-> "dataclass", cls |-> c, val |-> m]

Range(s) == {s[i] : i \in DOMAIN s}
Min(S) == CHOOSE x \in S : \A y \in S : x <= y

\* class PlatformType(Enum): the members in declaration order, each with its value.
PlatformType ==
    << [name |-> "STM32F1", value |-> "stm32f1"],
       [name |-> "STM32F4", value |-> "stm32f4"],
       [name |-> "STM32F7", value |-> "stm32f7"],
       [name |-> "RISC_V", value |-> "riscv"],
       [name |-> "X86_64", value |-> "x86_64"] >>

Members == {PlatformType[i].name : i \in DOMAIN PlatformType}
Value(name) == (CHOOSE m \in Range(PlatformType) : m.name = name).value
Member(name) == PyEnum(Value(name))

\* The dataclass declarations: each class's fields in declaration order.
ClockFields ==
    <<"system_clock_freq", "cpu_clock_freq", "apb1_clock_freq", "apb2_clock_freq",
      "timer_clock_freq", "timer_resolution_ns">>
MemoryFields ==
    <<"flash_size_kb", "ram_size_kb", "ccm_size_kb", "heap_size_kb", "stack_size_kb">>
PeripheralFields ==
    <<"gpio_port_count", "uart_count", "spi_count", "i2c_count", "adc_count",
      "dac_count", "timer_count", "dma_controller_count", "dma_stream_count">>
FeatureFields ==
    <<"has_fpu", "has_dsp", "has_mpu", "has_cache", "has_dma", "has_crypto",
      "has_ethernet", "has_usb">>
ModuleFields ==
    <<"power_management_enabled", "memory_monitor_enabled", "watchdog_enabled",
      "gpio_abstraction_enabled", "uart_abstraction_enabled", "spi_abstraction_enabled",
      "i2c_abstraction_enabled", "adc_abstraction_enabled", "dac_abstraction_enabled",
      "dma_abstraction_enabled", "security_enabled", "network_enabled", "ota_enabled",
      "debug_tools_enabled">>
DebugFields ==
    <<"debug_enabled", "error_check_enabled", "performance_profiling_enabled",
      "system_tracing_enabled", "memory_leak_detection_enabled">>
PlatformConfigFields ==
    <<"platform_type", "platform_name", "clock", "memory", "peripheral", "feature",
      "module", "debug">>

Fields(c) ==
    CASE c = "ClockConfig" -> ClockFields
      [] c = "MemoryConfig" -> MemoryFields
      [] c = "PeripheralConfig" -> PeripheralFields
      [] c = "FeatureConfig" -> FeatureFields
      [] c = "ModuleConfig" -> ModuleFields
      [] c = "DebugConfig" -> DebugFields
      [] c = "PlatformConfig" -> PlatformConfigFields

\* The section each nested field of PlatformConfig is declared to hold.
SectionClass ==
    [clock |-> "ClockConfig", memory |-> "MemoryConfig", peripheral |-> "PeripheralConfig",
     feature |-> "FeatureConfig", module |-> "ModuleConfig", debug |-> "DebugConfig"]
Sections == DOMAIN SectionClass

\* A section object built by keyword arguments, as _init_default_platforms does:
\* integers for the first three classes, booleans for the flag classes.
IntSection(c, r) == PyDataClass(c, [f \in Range(Fields(c)) |-> PyInt(r[f])])
FlagSection(c, r) == PyDataClass(c, [f \in Range(Fields(c)) |-> PyBool(r[f])])

NewPlatformConfig(pt, nm, clk, mem, per, fea, mod, dbg) ==
    PyDataClass("PlatformConfig",
              [platform_type |-> pt, platform_name |-> nm, clock |-> clk, memory |-> mem,
               peripheral |-> per, feature |-> fea, module |-> mod, debug |-> dbg])

(***************************************************************************)
(* ConfigGenerator._init_default_platforms: the three presets             *)
(***************************************************************************)
PresetSTM32F4 ==
    NewPlatformConfig(
        Member("STM32F4"),
        PyStr("STM32F407VGT6"),
        IntSection("ClockConfig", [system_clock_freq |-> 168000000,
                                   cpu_clock_freq |-> 168000000,
                                   apb1_clock_freq |-> 84000000,
                                   apb2_clock_freq |-> 168000000,
                                   timer_clock_freq |-> 84000000,
                                   timer_resolution_ns |-> 11]),
        IntSection("MemoryConfig", [flash_size_kb |-> 1024,
                                    ram_size_kb |-> 128, ccm_size_kb |-> 64,
                                    heap_size_kb |-> 64, stack_size_kb |-> 16]),
        IntSection("PeripheralConfig", [gpio_port_count |-> 9,
                                        uart_count |-> 6, spi_count |-> 3,
                                        i2c_count |-> 3, adc_count |-> 3,
                                        dac_count |-> 2, timer_count |-> 14,
                                        dma_controller_count |-> 2,
                                        dma_stream_count |-> 8]),
        FlagSection("FeatureConfig", [has_fpu |-> TRUE, has_dsp |-> TRUE,
                                      has_mpu |-> TRUE, has_cache |-> FALSE,
                                      has_dma |-> TRUE, has_crypto |-> FALSE,
                                      has_ethernet |-> TRUE, has_usb |-> TRUE]),
        FlagSection("ModuleConfig", [power_management_enabled |-> TRUE,
                                     memory_monitor_enabled |-> TRUE,
                                     watchdog_enabled |-> TRUE,
                                     gpio_abstraction_enabled |-> TRUE,
                                     uart_abstraction_enabled |-> TRUE,
                                     spi_abstraction_enabled |-> TRUE,
                                     i2c_abstraction_enabled |-> TRUE,
                                     adc_abstraction_enabled |-> TRUE,
                                     dac_abstraction_enabled |-> TRUE,
                                     dma_abstraction_enabled |-> TRUE,
                                     security_enabled |-> FALSE,
                                     network_enabled |-> TRUE,
                                     ota_enabled |-> TRUE,
                                     debug_tools_enabled |-> TRUE]),
        FlagSection("DebugConfig", [debug_enabled |-> TRUE,
                                    error_check_enabled |-> TRUE,
                                    performance_profiling_enabled |-> TRUE,
                                    system_tracing_enabled |-> TRUE,
                                    memory_leak_detection_enabled |-> TRUE]))

PresetSTM32F1 ==
    NewPlatformConfig(
        Member("STM32F1"),
        PyStr("STM32F103VET6"),
        IntSection("ClockConfig", [system_clock_freq |-> 72000000,
                                   cpu_clock_freq |-> 72000000,
                                   apb1_clock_freq |-> 36000000,
                                   apb2_clock_freq |-> 72000000,
                                   timer_clock_freq |-> 72000000,
                                   timer_resolution_ns |-> 13]),
        IntSection("MemoryConfig", [flash_size_kb |-> 512, ram_size_kb |-> 64,
                                    ccm_size_kb |-> 0, heap_size_kb |-> 32,
                                    stack_size_kb |-> 8]),
        IntSection("PeripheralConfig", [gpio_port_count |-> 7,
                                        uart_count |-> 5, spi_count |-> 3,
                                        i2c_count |-> 2, adc_count |-> 2,
                                        dac_count |-> 0, timer_count |-> 8,
                                        dma_controller_count |-> 2,
                                        dma_stream_count |-> 7]),
        FlagSection("FeatureConfig", [has_fpu |-> FALSE, has_dsp |-> FALSE,
                                      has_mpu |-> FALSE, has_cache |-> FALSE,
                                      has_dma |-> TRUE, has_crypto |-> FALSE,
                                      has_ethernet |-> FALSE,
                                      has_usb |-> TRUE]),
        FlagSection("ModuleConfig", [power_management_enabled |-> TRUE,
                                     memory_monitor_enabled |-> TRUE,
                                     watchdog_enabled |-> TRUE,
                                     gpio_abstraction_enabled |-> TRUE,
                                     uart_abstraction_enabled |-> TRUE,
                                     spi_abstraction_enabled |-> TRUE,
                                     i2c_abstraction_enabled |-> TRUE,
                                     adc_abstraction_enabled |-> TRUE,
                                     dac_abstraction_enabled |-> FALSE,
                                     dma_abstraction_enabled |-> TRUE,
                                     security_enabled |-> FALSE,
                                     network_enabled |-> FALSE,
                                     ota_enabled |-> FALSE,
                                     debug_tools_enabled |-> TRUE]),
        FlagSection("DebugConfig", [debug_enabled |-> TRUE,
                                    error_check_enabled |-> TRUE,
                                    performance_profiling_enabled |-> FALSE,
                                    system_tracing_enabled |-> TRUE,
                                    memory_leak_detection_enabled |-> TRUE]))

PresetSTM32F7 ==
    NewPlatformConfig(
        Member("STM32F7"),
        PyStr("STM32F767VIT6"),
        IntSection("ClockConfig", [system_clock_freq |-> 216000000,
                                   cpu_clock_freq |-> 216000000,
                                   apb1_clock_freq |-> 54000000,
                                   apb2_clock_freq |-> 108000000,
                                   timer_clock_freq |-> 108000000,
                                   timer_resolution_ns |-> 9]),
        IntSection("MemoryConfig", [flash_size_kb |-> 2048,
                                    ram_size_kb |-> 512, ccm_size_kb |-> 0,
                                    heap_size_kb |-> 256,
                                    stack_size_kb |-> 32]),
        IntSection("PeripheralConfig", [gpio_port_count |-> 11,
                                        uart_count |-> 8, spi_count |-> 6,
                                        i2c_count |-> 4, adc_count |-> 3,
                                        dac_count |-> 2, timer_count |-> 17,
                                        dma_controller_count |-> 2,
                                        dma_stream_count |-> 8]),
        FlagSection("FeatureConfig", [has_fpu |-> TRUE, has_dsp |-> TRUE,
                                      has_mpu |-> TRUE, has_cache |-> TRUE,
                                      has_dma |-> TRUE, has_crypto |-> TRUE,
                                      has_ethernet |-> TRUE, has_usb |-> TRUE]),
        FlagSection("ModuleConfig", [power_management_enabled |-> TRUE,
                                     memory_monitor_enabled |-> TRUE,
                                     watchdog_enabled |-> TRUE,
                                     gpio_abstraction_enabled |-> TRUE,
                                     uart_abstraction_enabled |-> TRUE,
                                     spi_abstraction_enabled |-> TRUE,
                                     i2c_abstraction_enabled |-> TRUE,
                                     adc_abstraction_enabled |-> TRUE,
                                     dac_abstraction_enabled |-> TRUE,
                                     dma_abstraction_enabled |-> TRUE,
                                     security_enabled |-> TRUE,
                                     network_enabled |-> TRUE,
                                     ota_enabled |-> TRUE,
                                     debug_tools_enabled |-> TRUE]),
        FlagSection("DebugConfig", [debug_enabled |-> TRUE,
                                    error_check_enabled |-> TRUE,
                                    performance_profiling_enabled |-> TRUE,
                                    system_tracing_enabled |-> TRUE,
                                    memory_leak_detection_enabled |-> TRUE]))

(***************************************************************************)
(* The JSON codec: dataclasses.asdict, json.dump, json.load,               *)
(* the PlatformConfig constructor                                         *)
(***************************************************************************)
JString(s) == [js |-> "string", val |-> s]
JNumber(n) == [js |-> "number", val |-> n]
JBoolean(b) == [js |-> "boolean", val |-> b]
JNull == [js |-> "null"]
\* An object's members in text order; closed = FALSE when the text stops inside it.
JObject(ms, c) == [js |-> "object", closed |-> c, members |-> ms]
\* The text stops where a value was expected.
JCut == [js |-> "cut"]

RECURSIVE HasCut(_)
HasCut(j) ==
    \/ j.js = "cut"
    \/ /\ j.js = "object"
       /\ \/ ~j.closed
          \/ \E i \in DOMAIN j.members : HasCut(j.members[i][2])

\* dataclasses.asdict: a dataclass instance becomes a dict of its fields in
\* declaration order, recursively; a dict is rebuilt with converted values; any other
\* value (an Enum member included) is copied as it is.
RECURSIVE asdict(_)
asdict(obj) ==
    CASE obj.py = "dataclass" ->
            PyDict(Fields(obj.cls),
                   [f \in Range(Fields(obj.cls)) |-> asdict(obj.val[f])])
      [] obj.py = "dict" ->
            PyDict(obj.keys, [k \in DOMAIN obj.val |-> asdict(obj.val[k])])
      [] OTHER -> obj

\* json.dump(o, f, indent=2): the text written to f chunk by chunk. A value the
\* encoder cannot serialize (an Enum member, a dataclass instance) raises TypeError at
\* its position, after everything before it was written: the text is cut there.
RECURSIVE json_dump(_)
json_dump(o) ==
    CASE o.py = "str" -> JString(o.val)
      [] o.py = "int" -> JNumber(o.val)
      [] o.py = "bool" -> JBoolean(o.val)
      [] o.py = "none" -> JNull
      [] o.py = "dict" ->
            LET enc == [i \in 1..Len(o.keys) |-> <<o.keys[i], json_dump(o.val[o.keys[i]])>>]
                bad == {i \in 1..Len(o.keys) : HasCut(enc[i][2])}
            IN  IF bad = {} THEN JObject(enc, TRUE)
                ELSE JObject(SubSeq(enc, 1, Min(bad)), FALSE)
      [] OTHER -> JCut

\* json.load: the Python value of a complete JSON text (the caller checks HasCut).
RECURSIVE json_load(_)
json_load(j) ==
    CASE j.js = "string" -> PyStr(j.val)
      [] j.js = "number" -> PyInt(j.val)
      [] j.js = "boolean" -> PyBool(j.val)
      [] j.js = "null" -> PyNone
      [] j.js = "object" ->
            PyDict([i \in 1..Len(j.members) |-> j.members[i][1]],
                   [k \in {j.members[i][1] : i \in 1..Len(j.members)} |->
                       \* a repeated name keeps its last value
                       json_load(j.members[CHOOSE i \in 1..Len(j.members) :
                                     /\ j.members[i][1] = k
                                     /\ \A i2 \in 1..Len(j.members) :
                                            j.members[i2][1] = k => i2 <= i][2])])

\* For contrast, a lenient constructor the code does not have: an absent field would
\* default to None instead of raising.
PlatformConfigInitWithDefaults(config_dict) ==
    IF /\ config_dict.py = "dict"
       /\ DOMAIN config_dict.val \subseteq Range(PlatformConfigFields)
    THEN [raised |-> FALSE,
          value |-> PyDataClass("PlatformConfig",
                                [f \in Range(PlatformConfigFields) |->
                                    IF f \in DOMAIN config_dict.val THEN config_dict.val[f]
                                    ELSE PyNone])]
    ELSE [raised |-> TRUE, value |-> PyNone]

\* The PlatformConfig constructor called with config_dict as keyword arguments: the
\* generated __init__ takes exactly the eight declared fields by keyword and stores
\* each argument as it is given; a missing or an unexpected key, or a value that is
\* no mapping, raises TypeError.
PlatformConfigInit(config_dict) ==
    IF /\ config_dict.py = "dict"
       /\ DOMAIN config_dict.val = Range(PlatformConfigFields)
    THEN [raised |-> FALSE, value |-> PyDataClass("PlatformConfig", config_dict.val)]
    ELSE [raised |-> TRUE, value |-> PyNone]

(***************************************************************************)
(* Files                                                                   *)
(***************************************************************************)
Absent == [kind |-> "absent"]
\* A file whose write stopped part-way (or never began after the open truncated it).
Partial == [kind |-> "partial"]
JsonFile(j) == [kind |-> "json", indent |-> 2, doc |-> j]

\* ConfigGenerator.load_config_json on the file read: None on any exception (no such
\* file, a text that is no JSON, TypeError from the constructor), else the constructed
\* PlatformConfig.
load_config_json(f) ==
    IF f.kind # "json" THEN PyNone
    ELSE IF HasCut(f.doc) THEN PyNone
    ELSE PlatformConfigInit(json_load(f.doc)).value

(***************************************************************************)
(* The artifact renderers                                                  *)
(***************************************************************************)
\* Attribute access obj.name: only a dataclass instance has the fields' names.
HasAttr(obj, name) == obj.py = "dataclass" /\ name \in DOMAIN obj.val

\* The truth value of a Python value, as `1 if x else 0` takes it.
Truthy(v) ==
    CASE v.py = "bool" -> v.val
      [] v.py = "int" -> v.val # 0
      [] v.py = "str" -> v.val # ""
      [] v.py = "dict" -> v.keys # <<>>
      [] v.py = "none" -> FALSE
      [] OTHER -> TRUE

\* str.upper() of the five PlatformType values.
upper(s) ==
    CASE s = "stm32f1" -> "STM32F1"
      [] s = "stm32f4" -> "STM32F4"
      [] s = "stm32f7" -> "STM32F7"
      [] s = "riscv" -> "RISCV"
      [] s = "x86_64" -> "X86_64"

\* The interpolated #define lines of the header template, in template order:
\* <<macro, section, field, flag>>; a flag is written `1 if ... else 0`.
HeaderMacros ==
    << <<"RTOS_HW_SYSTEM_CLOCK_FREQ", "clock", "system_clock_freq", FALSE>>,
       <<"RTOS_HW_CPU_CLOCK_FREQ", "clock", "cpu_clock_freq", FALSE>>,
       <<"RTOS_HW_APB1_CLOCK_FREQ", "clock", "apb1_clock_freq", FALSE>>,
       <<"RTOS_HW_APB2_CLOCK_FREQ", "clock", "apb2_clock_freq", FALSE>>,
       <<"RTOS_HW_TIMER_CLOCK_FREQ", "clock", "timer_clock_freq", FALSE>>,
       <<"RTOS_HW_TIMER_RESOLUTION_NS", "clock", "timer_resolution_ns", FALSE>>,
       <<"RTOS_HW_FLASH_SIZE", "memory", "flash_size_kb", FALSE>>,
       <<"RTOS_HW_SRAM_SIZE", "memory", "ram_size_kb", FALSE>>,
       <<"RTOS_HW_CCM_SIZE", "memory", "ccm_size_kb", FALSE>>,
       <<"RTOS_HW_HEAP_SIZE", "memory", "heap_size_kb", FALSE>>,
       <<"RTOS_HW_STACK_SIZE", "memory", "stack_size_kb", FALSE>>,
       <<"RTOS_HW_GPIO_PORT_COUNT", "peripheral", "gpio_port_count", FALSE>>,
       <<"RTOS_HW_UART_COUNT", "peripheral", "uart_count", FALSE>>,
       <<"RTOS_HW_SPI_COUNT", "peripheral", "spi_count", FALSE>>,
       <<"RTOS_HW_I2C_COUNT", "peripheral", "i2c_count", FALSE>>,
       <<"RTOS_HW_ADC_COUNT", "peripheral", "adc_count", FALSE>>,
       <<"RTOS_HW_DAC_COUNT", "peripheral", "dac_count", FALSE>>,
       <<"RTOS_HW_TIMER_COUNT", "peripheral", "timer_count", FALSE>>,
       <<"RTOS_HW_DMA_CONTROLLER_COUNT", "peripheral", "dma_controller_count", FALSE>>,
       <<"RTOS_HW_DMA_STREAM_COUNT", "peripheral", "dma_stream_count", FALSE>>,
       <<"RTOS_HW_SUPPORT_FPU", "feature", "has_fpu", TRUE>>,
       <<"RTOS_HW_SUPPORT_DSP", "feature", "has_dsp", TRUE>>,
       <<"RTOS_HW_SUPPORT_MPU", "feature", "has_mpu", TRUE>>,
       <<"RTOS_HW_SUPPORT_CACHE", "feature", "has_cache", TRUE>>,
       <<"RTOS_HW_SUPPORT_DMA", "feature", "has_dma", TRUE>>,
       <<"RTOS_HW_SUPPORT_CRYPTO", "feature", "has_crypto", TRUE>>,
       <<"RTOS_HW_SUPPORT_ETHERNET", "feature", "has_ethernet", TRUE>>,
       <<"RTOS_HW_SUPPORT_USB", "feature", "has_usb", TRUE>>,
       <<"RTOS_HW_ENABLE_POWER_MGMT", "module", "power_management_enabled", TRUE>>,
       <<"RTOS_HW_ENABLE_MEMORY_MONITOR", "module", "memory_monitor_enabled", TRUE>>,
       <<"RTOS_HW_ENABLE_WATCHDOG", "module", "watchdog_enabled", TRUE>>,
       <<"RTOS_HW_ENABLE_GPIO", "module", "gpio_abstraction_enabled", TRUE>>,
       <<"RTOS_HW_ENABLE_UART", "module", "uart_abstraction_enabled", TRUE>>,
       <<"RTOS_HW_ENABLE_SPI", "module", "spi_abstraction_enabled", TRUE>>,
       <<"RTOS_HW_ENABLE_I2C", "module", "i2c_abstraction_enabled", TRUE>>,
       <<"RTOS_HW_ENABLE_ADC", "module", "adc_abstraction_enabled", TRUE>>,
       <<"RTOS_HW_ENABLE_DAC", "module", "dac_abstraction_enabled", TRUE>>,
       <<"RTOS_HW_ENABLE_DMA", "module", "dma_abstraction_enabled", TRUE>>,
       <<"RTOS_HW_ENABLE_SECURITY", "module", "security_enabled", TRUE>>,
       <<"RTOS_HW_ENABLE_NETWORK", "module", "network_enabled", TRUE>>,
       <<"RTOS_HW_ENABLE_OTA", "module", "ota_enabled", TRUE>>,
       <<"RTOS_HW_ENABLE_DEBUG_TOOLS", "module", "debug_tools_enabled", TRUE>>,
       <<"RTOS_HW_DEBUG", "debug", "debug_enabled", TRUE>>,
       <<"RTOS_HW_ERROR_CHECK", "debug", "error_check_enabled", TRUE>>,
       <<"RTOS_PERFORMANCE_PROFILING_ENABLED", "debug", "performance_profiling_enabled", TRUE>>,
       <<"RTOS_SYSTEM_TRACING_ENABLED", "debug", "system_tracing_enabled", TRUE>>,
       <<"RTOS_MEMORY_LEAK_DETECTION", "debug", "memory_leak_detection_enabled", TRUE>> >>

\* The fixed per-module aliases that follow: <<macro, aliased macro>>.
HeaderAliases ==
    << <<"RTOS_POWER_DEBUG", "RTOS_HW_DEBUG">>,
       <<"RTOS_POWER_ERROR_CHECK", "RTOS_HW_ERROR_CHECK">>,
       <<"RTOS_MEMORY_DEBUG", "RTOS_HW_DEBUG">>,
       <<"RTOS_MEMORY_ERROR_CHECK", "RTOS_HW_ERROR_CHECK">>,
       <<"RTOS_WATCHDOG_DEBUG", "RTOS_HW_DEBUG">>,
       <<"RTOS_WATCHDOG_ERROR_CHECK", "RTOS_HW_ERROR_CHECK">>,
       <<"RTOS_GPIO_DEBUG", "RTOS_HW_DEBUG">>,
       <<"RTOS_GPIO_ERROR_CHECK", "RTOS_HW_ERROR_CHECK">>,
       <<"RTOS_UART_DEBUG", "RTOS_HW_DEBUG">>,
       <<"RTOS_UART_ERROR_CHECK", "RTOS_HW_ERROR_CHECK">>,
       <<"RTOS_SPI_DEBUG", "RTOS_HW_DEBUG">>,
       <<"RTOS_SPI_ERROR_CHECK", "RTOS_HW_ERROR_CHECK">>,
       <<"RTOS_I2C_DEBUG", "RTOS_HW_DEBUG">>,
       <<"RTOS_I2C_ERROR_CHECK", "RTOS_HW_ERROR_CHECK">>,
       <<"RTOS_ADC_DEBUG", "RTOS_HW_DEBUG">>,
       <<"RTOS_ADC_ERROR_CHECK", "RTOS_HW_ERROR_CHECK">>,
       <<"RTOS_DAC_DEBUG", "RTOS_HW_DEBUG">>,
       <<"RTOS_DAC_ERROR_CHECK", "RTOS_HW_ERROR_CHECK">>,
       <<"RTOS_DMA_DEBUG", "RTOS_HW_DEBUG">>,
       <<"RTOS_DMA_ERROR_CHECK", "RTOS_HW_ERROR_CHECK">> >>

\* For contrast, a block the code does not emit: one literal set for the whole STM32
\* family.
HeaderPlatformBlockOneFamily(platform) ==
    IF platform \in {"STM32F1", "STM32F4", "STM32F7"}
    THEN << <<"STM32F40_41xxx", 1>>, <<"USE_STDPERIPH_DRIVER", 1>>,
            <<"HSE_VALUE", 25000000>> >>
    ELSE << >>

\* The trailing platform block, chosen by the identifier passed to the call.
HeaderPlatformBlock(platform) ==
    CASE platform = "STM32F4" ->
            << <<"STM32F40_41xxx", 1>>, <<"USE_STDPERIPH_DRIVER", 1>>,
               <<"HSE_VALUE", 25000000>> >>
      [] platform = "STM32F1" ->
            << <<"STM32F10X_HD", 1>>, <<"USE_STDPERIPH_DRIVER", 1>>,
               <<"HSE_VALUE", 8000000>> >>
      [] platform = "STM32F7" ->
            << <<"STM32F767xx", 1>>, <<"USE_HAL_DRIVER", 1>>,
               <<"HSE_VALUE", 25000000>> >>
      [] OTHER -> << >>

\* Every config.<section>.<field> the sequence `uses` reads can be read.
CanRead(config, uses) ==
    \A i \in DOMAIN uses :
        /\ HasAttr(config, uses[i][1])
        /\ HasAttr(config.val[uses[i][1]], uses[i][2])

\* The header text of generate_config_header, built before the try block: reading a
\* field of a section that is no dataclass instance raises AttributeError.
HeaderContent(platform, config) ==
    LET uses == [i \in DOMAIN HeaderMacros |-> <<HeaderMacros[i][2], HeaderMacros[i][3]>>]
    IN  IF ~(HasAttr(config, "platform_name") /\ CanRead(config, uses))
        THEN [raised |-> TRUE, text |-> Absent]
        ELSE [raised |-> FALSE,
              text |->
                [kind |-> "header",
                 guard |-> "__RTOS_HW_CONFIG_GENERATED_H__",
                 platform_name |-> config.val.platform_name,
                 platform_type |-> upper(Value(platform)),
                 macros |->
                    [i \in DOMAIN HeaderMacros |->
                        LET v == config.val[HeaderMacros[i][2]].val[HeaderMacros[i][3]]
                        IN  <<HeaderMacros[i][1],
                              IF HeaderMacros[i][4]
                              THEN PyInt(IF Truthy(v) THEN 1 ELSE 0)
                              ELSE v>>],
                 aliases |-> HeaderAliases,
                 block |-> HeaderPlatformBlock(platform)]]

\* One line of a build script: <<variable, operator, text>>.
\* For contrast, a selection the code does not make: every identifier outside the
\* STM32 family would get the RISC-V tools.
MakefileToolchainElseRiscv(platform) ==
    IF platform \in {"STM32F1", "STM32F4", "STM32F7"}
    THEN << <<"CC", "=", "arm-none-eabi-gcc">>,
            <<"OBJCOPY", "=", "arm-none-eabi-objcopy">>,
            <<"SIZE", "=", "arm-none-eabi-size">>,
            <<"CPU", "=", "-mcpu=cortex-m4 -mthumb -mfpu=fpv4-sp-d16 -mfloat-abi=hard">> >>
    ELSE << <<"CC", "=", "riscv64-unknown-elf-gcc">>,
            <<"OBJCOPY", "=", "riscv64-unknown-elf-objcopy">>,
            <<"SIZE", "=", "riscv64-unknown-elf-size">>,
            <<"CPU", "=", "-march=rv32imac -mabi=ilp32">> >>

\* The toolchain block of generate_makefile, chosen by the identifier.
MakefileToolchain(platform) ==
    IF platform \in {"STM32F1", "STM32F4", "STM32F7"}
    THEN << <<"CC", "=", "arm-none-eabi-gcc">>,
            <<"OBJCOPY", "=", "arm-none-eabi-objcopy">>,
            <<"SIZE", "=", "arm-none-eabi-size">>,
            <<"CPU", "=", "-mcpu=cortex-m4 -mthumb -mfpu=fpv4-sp-d16 -mfloat-abi=hard">> >>
    ELSE IF platform = "RISC_V"
    THEN << <<"CC", "=", "riscv64-unknown-elf-gcc">>,
            <<"OBJCOPY", "=", "riscv64-unknown-elf-objcopy">>,
            <<"SIZE", "=", "riscv64-unknown-elf-size">>,
            <<"CPU", "=", "-march=rv32imac -mabi=ilp32">> >>
    ELSE << >>

MakefileFlags ==
    << <<"CFLAGS", "=", "$(CPU) -Os -g3 -Wall -Wextra -Wno-unused-parameter">>,
       <<"CFLAGS", "+=", "-DSTM32F40_41xxx -DUSE_STDPERIPH_DRIVER -DHSE_VALUE=25000000">>,
       <<"INCLUDES", "=", "-I. -Irtos -Irtos/core -Irtos/hw -Irtos/hw/security -Irtos/hw/network -Irtos/hw/ota -Irtos/hw/debug">>,
       <<"INCLUDES", "+=", "-Ifwlib/inc -Ifwlib/CMSIS/STM32F4xx/Include -Ifwlib/CMSIS/Include">>,
       <<"SOURCES", "=", "main_hw_enhanced.c system_support.c">>,
       <<"SOURCES", "+=", "rtos/system.c">>,
       <<"SOURCES", "+=", "rtos/hw/hw_abstraction.c rtos/hw/interrupt_handler.c">> >>

\* For contrast, a table the code does not have: a ninth rule, for the ADC module.
MakefileModulesWithAdc ==
    << <<"power_management_enabled", "rtos/hw/power_management.c">>,
       <<"memory_monitor_enabled", "rtos/hw/memory_monitor.c">>,
       <<"watchdog_enabled", "rtos/hw/watchdog_manager.c">>,
       <<"gpio_abstraction_enabled", "rtos/hw/gpio_abstraction.c">>,
       <<"uart_abstraction_enabled", "rtos/hw/uart_abstraction.c">>,
       <<"spi_abstraction_enabled", "rtos/hw/spi_abstraction.c">>,
       <<"i2c_abstraction_enabled", "rtos/hw/i2c_abstraction.c">>,
       <<"adc_abstraction_enabled", "rtos/hw/adc_abstraction.c">>,
       <<"dma_abstraction_enabled", "rtos/hw/dma_abstraction.c">> >>

\* The module flags generate_makefile tests, in the order it tests them, each with the
\* source file its line appends.
MakefileModules ==
    << <<"power_management_enabled", "rtos/hw/power_management.c">>,
       <<"memory_monitor_enabled", "rtos/hw/memory_monitor.c">>,
       <<"watchdog_enabled", "rtos/hw/watchdog_manager.c">>,
       <<"gpio_abstraction_enabled", "rtos/hw/gpio_abstraction.c">>,
       <<"uart_abstraction_enabled", "rtos/hw/uart_abstraction.c">>,
       <<"spi_abstraction_enabled", "rtos/hw/spi_abstraction.c">>,
       <<"i2c_abstraction_enabled", "rtos/hw/i2c_abstraction.c">>,
       <<"dma_abstraction_enabled", "rtos/hw/dma_abstraction.c">> >>

MakefileTail ==
    << <<"FWLIB_SOURCES", "=", "fwlib/src/stm32f4xx_rcc.c fwlib/src/stm32f4xx_tim.c">>,
       <<"FWLIB_SOURCES", "+=", "fwlib/src/stm32f4xx_gpio.c fwlib/src/stm32f4xx_usart.c">>,
       <<"FWLIB_SOURCES", "+=", "fwlib/src/stm32f4xx_pwr.c fwlib/src/stm32f4xx_adc.c">>,
       <<"FWLIB_SOURCES", "+=", "fwlib/src/stm32f4xx_iwdg.c fwlib/src/stm32f4xx_wwdg.c">>,
       <<"FWLIB_SOURCES", "+=", "fwlib/src/stm32f4xx_dma.c fwlib/src/stm32f4xx_spi.c">>,
       <<"FWLIB_SOURCES", "+=", "fwlib/src/stm32f4xx_i2c.c fwlib/src/stm32f4xx_dac.c">>,
       <<"FWLIB_SOURCES", "+=", "fwlib/src/misc.c">>,
       <<"OBJECTS", "=", "$(SOURCES:.c=.o) $(FWLIB_SOURCES:.c=.o) startup_stm32f407xx.o">>,
       <<"LDSCRIPT", "=", "STM32F407VGTx_FLASH.ld">>,
       <<"LDFLAGS", "=", "$(CPU) -specs=nano.specs -specs=nosys.specs">>,
       <<"LDFLAGS", "+=", "-T$(LDSCRIPT) -Wl,--gc-sections -Wl,--print-memory-usage">>,
       <<"TARGET", "=", "rtos_hw_enhanced">> >>

\* The rules of the build script: the target, and the variables its prerequisites and
\* recipe refer to.
MakefileRules ==
    << [target |-> "all", refs |-> {"TARGET"}],
       [target |-> "$(TARGET).elf", refs |-> {"TARGET", "OBJECTS", "CC", "LDFLAGS", "SIZE"}],
       [target |-> "$(TARGET).bin", refs |-> {"TARGET", "OBJCOPY"}],
       [target |-> "$(TARGET).hex", refs |-> {"TARGET", "OBJCOPY"}],
       [target |-> "%.o: %.c", refs |-> {"CC", "CFLAGS", "INCLUDES"}],
       [target |-> "%.o: %.s", refs |-> {"CC", "CFLAGS"}],
       [target |-> "clean", refs |-> {"OBJECTS", "TARGET"}],
       [target |-> "info", refs |-> {"PLATFORM_NAME", "CC", "SOURCES", "FWLIB_SOURCES"}] >>

\* The lines a renderer appends for the module flags that are true, in test order.
RECURSIVE ModuleLines(_, _)
ModuleLines(module, table) ==
    IF table = << >> THEN << >>
    ELSE (IF Truthy(module.val[table[1][1]]) THEN <<table[1][2]>> ELSE << >>)
         \o ModuleLines(module, Tail(table))

\* The build script of generate_makefile, built before the try block.
MakefileContent(platform, config) ==
    LET uses == [i \in DOMAIN MakefileModules |-> <<"module", MakefileModules[i][1]>>]
    IN  IF ~(HasAttr(config, "platform_name") /\ CanRead(config, uses))
        THEN [raised |-> TRUE, text |-> Absent]
        ELSE [raised |-> FALSE,
              text |->
                [kind |-> "makefile",
                 platform_name |-> config.val.platform_name,
                 platform |-> Value(platform),
                 toolchain |-> MakefileToolchain(platform),
                 flags |-> MakefileFlags,
                 modules |-> ModuleLines(config.val.module, MakefileModules),
                 tail |-> MakefileTail,
                 phony |-> {"all", "clean"},
                 rules |-> MakefileRules]]

\* The toolchain block of generate_cmake_file: only the three STM32 identifiers have one.
CMakeToolchain(platform) ==
    IF platform \in {"STM32F1", "STM32F4", "STM32F7"}
    THEN << <<"CMAKE_SYSTEM_NAME", "Generic">>,
            <<"CMAKE_SYSTEM_PROCESSOR", "arm">>,
            <<"CMAKE_C_COMPILER", "arm-none-eabi-gcc">>,
            <<"CMAKE_ASM_COMPILER", "arm-none-eabi-gcc">>,
            <<"CMAKE_OBJCOPY", "arm-none-eabi-objcopy">>,
            <<"CMAKE_SIZE", "arm-none-eabi-size">>,
            <<"CPU_FLAGS", "-mcpu=cortex-m4 -mthumb -mfpu=fpv4-sp-d16 -mfloat-abi=hard">> >>
    ELSE << >>

\* For contrast, flags the code does not emit: the defines of the STM32F1 family.
CMakeFlagsF1 ==
    << <<"CMAKE_C_FLAGS", "${CPU_FLAGS} -Os -g3 -Wall -Wextra -Wno-unused-parameter">>,
       <<"CMAKE_C_FLAGS", "${CMAKE_C_FLAGS} -DSTM32F10X_HD -DUSE_STDPERIPH_DRIVER -DHSE_VALUE=8000000">> >>

\* The compiler flags of generate_cmake_file: literals, the same for every call.
CMakeFlags ==
    << <<"CMAKE_C_FLAGS", "${CPU_FLAGS} -Os -g3 -Wall -Wextra -Wno-unused-parameter">>,
       <<"CMAKE_C_FLAGS", "${CMAKE_C_FLAGS} -DSTM32F40_41xxx -DUSE_STDPERIPH_DRIVER -DHSE_VALUE=25000000">> >>

CMakeIncludeDirectories ==
    <<".", "rtos", "rtos/core", "rtos/hw", "rtos/hw/security", "rtos/hw/network",
      "rtos/hw/ota", "rtos/hw/debug", "fwlib/inc", "fwlib/CMSIS/STM32F4xx/Include",
      "fwlib/CMSIS/Include">>

CMakeBaseSources ==
    <<"main_hw_enhanced.c", "system_support.c", "rtos/system.c",
      "rtos/hw/hw_abstraction.c", "rtos/hw/interrupt_handler.c">>

\* For contrast, a table the code does not have: five rules, none for the DMA module.
CMakeModulesFive ==
    << <<"power_management_enabled", "rtos/hw/power_management.c">>,
       <<"memory_monitor_enabled", "rtos/hw/memory_monitor.c">>,
       <<"watchdog_enabled", "rtos/hw/watchdog_manager.c">>,
       <<"gpio_abstraction_enabled", "rtos/hw/gpio_abstraction.c">>,
       <<"uart_abstraction_enabled", "rtos/hw/uart_abstraction.c">> >>

\* The module flags generate_cmake_file tests, in the order it tests them.
CMakeModules ==
    << <<"power_management_enabled", "rtos/hw/power_management.c">>,
       <<"memory_monitor_enabled", "rtos/hw/memory_monitor.c">>,
       <<"watchdog_enabled", "rtos/hw/watchdog_manager.c">>,
       <<"gpio_abstraction_enabled", "rtos/hw/gpio_abstraction.c">>,
       <<"uart_abstraction_enabled", "rtos/hw/uart_abstraction.c">>,
       <<"dma_abstraction_enabled", "rtos/hw/dma_abstraction.c">> >>

CMakeFwlibSources ==
    <<"fwlib/src/stm32f4xx_rcc.c", "fwlib/src/stm32f4xx_tim.c",
      "fwlib/src/stm32f4xx_gpio.c", "fwlib/src/stm32f4xx_usart.c",
      "fwlib/src/stm32f4xx_pwr.c", "fwlib/src/stm32f4xx_adc.c",
      "fwlib/src/stm32f4xx_iwdg.c", "fwlib/src/stm32f4xx_wwdg.c",
      "fwlib/src/stm32f4xx_dma.c", "fwlib/src/misc.c">>

\* The executable, link and post-build declarations that close the build description.
CMakeTail ==
    [executable |-> <<"${SOURCES}", "${FWLIB_SOURCES}", "startup_stm32f407xx.s">>,
     link_flags |-> "${CPU_FLAGS} -specs=nano.specs -specs=nosys.specs -T${CMAKE_SOURCE_DIR}/STM32F407VGTx_FLASH.ld -Wl,--gc-sections -Wl,--print-memory-usage",
     link_libraries |-> <<"m">>,
     post_build |-> <<"${CMAKE_OBJCOPY} -O binary", "${CMAKE_OBJCOPY} -O ihex", "${CMAKE_SIZE}">>]

\* The build description of generate_cmake_file, built before the try block.
CMakeContent(platform, config) ==
    LET uses == [i \in DOMAIN CMakeModules |-> <<"module", CMakeModules[i][1]>>]
    IN  IF ~(HasAttr(config, "platform_name") /\ CanRead(config, uses))
        THEN [raised |-> TRUE, text |-> Absent]
        ELSE [raised |-> FALSE,
              text |->
                [kind |-> "cmake",
                 minimum_required |-> "3.16",
                 project |-> "rtos_hw_enhanced",
                 platform_name |-> config.val.platform_name,
                 platform_type |-> Value(platform),
                 toolchain |-> CMakeToolchain(platform),
                 flags |-> CMakeFlags,
                 include_directories |-> CMakeIncludeDirectories,
                 sources |-> CMakeBaseSources
                             \o ModuleLines(config.val.module, CMakeModules),
                 fwlib_sources |-> CMakeFwlibSources,
                 tail |-> CMakeTail]]

\* The text save_config_json writes: json.dump of asdict(config), inside the try block
\* and after the file was opened for writing. complete = FALSE: TypeError was raised
\* and the file holds the text up to that point.
JsonContent(config) ==
    LET Made(j) == [complete |-> ~HasCut(j), text |-> JsonFile(j)]
    IN  Made(json_dump(asdict(config)))

(***************************************************************************)
(* The filesystem and the command line                                     *)
(***************************************************************************)
Kinds == <<"header", "makefile", "cmake", "json">>

\* The file name main() gives each artifact inside the platform directory.
FileName ==
    [header |-> "hw_config_generated.h", makefile |-> "Makefile",
     cmake |-> "CMakeLists.txt", json |-> "platform_config.json"]

\* os.path.join(args.output_dir, platform.value) and a file in it, for one output
\* directory.
PlatformDir(platform) == Value(platform)
OutPath(platform, kind) == <<PlatformDir(platform), FileName[kind]>>
OutPaths == {OutPath(p, Kinds[k]) : p \in Members, k \in DOMAIN Kinds}

\* A configuration document as a user writes it: the identifier by its string value,
\* the name, and the six sections.
Document(id, name, sections) ==
    JObject(<< <<"platform_type", JString(id)>>, <<"platform_name", JString(name)>> >>
            \o sections, TRUE)
SectionsOf(config, names) ==
    [i \in DOMAIN names |-> <<names[i], json_dump(asdict(config.val[names[i]]))>>]
AllSections == <<"clock", "memory", "peripheral", "feature", "module", "debug">>
Replace(sections, name, j) ==
    [i \in DOMAIN sections |-> IF sections[i][1] = name THEN <<name, j>> ELSE sections[i]]

\* The files a user may pass as --config-file, besides the generated JSON artifacts.
InputFiles ==
    [custom_f4 |->
        JsonFile(Document("stm32f4", "CUSTOM_F407",
                          Replace(SectionsOf(PresetSTM32F4, AllSections), "memory",
                                  json_dump(asdict(PresetSTM32F1.val.memory))))),
     custom_riscv |->
        JsonFile(Document("riscv", "CUSTOM_RV32", SectionsOf(PresetSTM32F1, AllSections))),
     no_memory |->
        JsonFile(Document("stm32f4", "CUSTOM_F407",
                          SectionsOf(PresetSTM32F4,
                                     <<"clock", "peripheral", "feature", "module", "debug">>))),
     empty_memory |->
        JsonFile(Document("stm32f4", "CUSTOM_F407",
                          Replace(SectionsOf(PresetSTM32F4, AllSections), "memory",
                                  JObject(<< >>, TRUE)))),
     clock_number |->
        JsonFile(Document("stm32f4", "CUSTOM_F407",
                          Replace(SectionsOf(PresetSTM32F4, AllSections), "clock",
                                  JNumber(5)))),
     undeclared_id |->
        JsonFile(Document("avr8", "CUSTOM_AVR", SectionsOf(PresetSTM32F1, AllSections))),
     extra_key |->
        JsonFile(Document("stm32f4", "CUSTOM_F407",
                          SectionsOf(PresetSTM32F4, AllSections)
                          \o << <<"vendor", JString("acme")>> >>)),
     malformed |-> JsonFile(JCut),
     missing |-> Absent]
InputPath(name) == <<"input", name>>
InputPaths == {InputPath(n) : n \in DOMAIN InputFiles}

\* The file at a path: the input files are the user's and are never written; the
\* artifacts are what the runs so far left in the output directory.
ReadFile(fsys, path) == IF path \in InputPaths THEN InputFiles[path[2]] ELSE fsys[path]

NoFile == <<"", "">>
NoPlatform == "none"

\* The parsed command line (--list-platforms, --generate-all, --platform,
\* --config-file) with every option at its default.
NoArgs ==
    [list_platforms |-> FALSE, generate_all |-> FALSE, platform |-> NoPlatform,
     config_file |-> NoFile]

\* ConfigGenerator.__init__: the registry holds the three presets.
DefaultPlatforms ==
    [p \in {"STM32F4", "STM32F1", "STM32F7"} |->
        CASE p = "STM32F4" -> PresetSTM32F4
          [] p = "STM32F1" -> PresetSTM32F1
          [] p = "STM32F7" -> PresetSTM32F7]

\* For contrast, an assignment the code does not make: the new entry would keep the
\* identifier of the entry it replaces.
SetItemMerge(registry, platform, config) ==
    [p \in DOMAIN registry \cup {platform} |->
        IF p # platform THEN registry[p]
        ELSE IF p \in DOMAIN registry
        THEN [config EXCEPT !.val.platform_type = registry[p].val.platform_type]
        ELSE config]

\* self.platforms[platform] = config
SetItem(registry, platform, config) ==
    [p \in DOMAIN registry \cup {platform} |->
        IF p = platform THEN config ELSE registry[p]]

NotCalled == [p \in Members, k \in Range(Kinds) |-> "not_called"]

\* The command lines tried: --list-platforms, --generate-all, no option at all,
\* --platform with each identifier, --platform stm32f4 with --config-file naming each
\* input file or the JSON artifact an earlier run wrote for a preset, and --platform
\* riscv with the two input files made for it or against it.
CommandLines ==
    {[NoArgs EXCEPT !.list_platforms = TRUE], [NoArgs EXCEPT !.generate_all = TRUE], NoArgs}
    \cup {[NoArgs EXCEPT !.platform = p] : p \in Members}
    \cup {[NoArgs EXCEPT !.platform = "STM32F4", !.config_file = f] :
            f \in InputPaths \cup {OutPath(q, "json") : q \in DOMAIN DefaultPlatforms}}
    \cup {[NoArgs EXCEPT !.platform = "RISC_V", !.config_file = InputPath(n)] :
            n \in {"custom_riscv", "no_memory"}}

Init ==
    /\ platforms = DefaultPlatforms
    /\ fs = [p \in OutPaths |-> Absent]
    /\ dirs = {}
    /\ pc = "idle"
    /\ args = NoArgs
    /\ cur = NoPlatform
    /\ custom_config = PyNone
    /\ ret = NotCalled
    /\ stdout = {}
    /\ faults = 0

(***************************************************************************)
(* main() and the calls it makes                                           *)
(***************************************************************************)
\* What the filesystem does to one `makedirs; open(w); write` sequence.
IOOutcomes == {"ok", "makedirs_fails", "open_fails", "write_fails"}

\* The try block shared by the four writers: os.makedirs(dirname, exist_ok=True),
\* open(output_file, 'w') which creates or truncates the file, then the write.
\* `complete` is FALSE when producing the text raises inside the block, after `text`
\* was written. The result: the directories, the file and the return value.
TryWrite(path, text, complete, io) ==
    CASE io = "makedirs_fails" -> [dirs |-> dirs, file |-> fs[path], ok |-> FALSE]
      [] io = "open_fails" -> [dirs |-> dirs \cup {path[1]}, file |-> fs[path], ok |-> FALSE]
      [] io = "write_fails" -> [dirs |-> dirs \cup {path[1]}, file |-> Partial, ok |-> FALSE]
      [] io = "ok" -> [dirs |-> dirs \cup {path[1]}, file |-> text, ok |-> complete]

\* The faults the filesystem can still produce for a write to `path`.
Possible(path, io) ==
    \/ io = "ok"
    \/ /\ faults < MaxIOFaults
       /\ io = "makedirs_fails" => path[1] \notin dirs

Succ(platform) ==
    LET i == CHOOSE i \in DOMAIN PlatformType : PlatformType[i].name = platform
    IN  IF i < Len(PlatformType) THEN PlatformType[i + 1].name ELSE NoPlatform

\* Where main() goes after the call for `kind` returned.
After(kind) ==
    CASE kind = "header" -> "makefile"
      [] kind = "makefile" -> "cmake"
      [] kind = "cmake" -> "json"
      [] kind = "json" ->
            IF args.generate_all /\ Succ(cur) # NoPlatform THEN "header" ELSE "exit"

\* A new process: parse_args, generator = ConfigGenerator(), then the branch taken.
Start(a) ==
    /\ pc = "idle"
    /\ args' = a
    /\ platforms' = DefaultPlatforms
    /\ custom_config' = PyNone
    /\ ret' = NotCalled
    /\ IF a.list_platforms
       THEN /\ stdout' = {<<"list", Value(p), "listed">> : p \in DOMAIN DefaultPlatforms}
            /\ cur' = NoPlatform
            /\ pc' = "exit"
       ELSE IF a.generate_all
       THEN /\ stdout' = {}
            /\ cur' = PlatformType[1].name
            /\ pc' = "header"
       ELSE IF a.platform = NoPlatform
       THEN /\ stdout' = {<<"main", "", "no platform">>}
            /\ cur' = NoPlatform
            /\ pc' = "exit"
       ELSE /\ stdout' = {}
            /\ cur' = a.platform
            /\ pc' = IF a.config_file # NoFile THEN "load" ELSE "header"
    /\ UNCHANGED <<fs, dirs, faults>>

\* main(): custom_config = generator.load_config_json(args.config_file), and when it
\* is truthy (a dataclass instance always is, None never) it is stored under the
\* requested platform.
LoadConfig ==
    /\ pc = "load"
    /\ \E c \in {load_config_json(ReadFile(fs, args.config_file))} :
           /\ custom_config' = c
           /\ platforms' = IF c # PyNone THEN SetItem(platforms, cur, c) ELSE platforms
           /\ stdout' = stdout \cup {<<"load", "", IF c # PyNone THEN "success" ELSE "failure">>}
    /\ pc' = "header"
    /\ UNCHANGED <<fs, dirs, args, cur, ret, faults>>

\* The body of a writer after the platform was found and its text built: the try
\* block, then the message and the return value.
WriteArtifact(kind, text, complete) ==
    \E io \in IOOutcomes :
        /\ Possible(OutPath(cur, kind), io)
        /\ \E w \in {TryWrite(OutPath(cur, kind), text, complete, io)} :
               /\ fs' = [fs EXCEPT ![OutPath(cur, kind)] = w.file]
               /\ dirs' = w.dirs
               /\ ret' = [ret EXCEPT ![cur, kind] = IF w.ok THEN "True" ELSE "False"]
               /\ stdout' = stdout \cup
                     {<<kind, Value(cur), IF w.ok THEN "success" ELSE "failure">>}
        /\ faults' = IF io = "ok" THEN faults ELSE faults + 1

\* For contrast, a writer that would create the output directory before looking the
\* platform up.
UnsupportedAfterMakedirs(kind, says) ==
    /\ ret' = [ret EXCEPT ![cur, kind] = "False"]
    /\ stdout' = IF says THEN stdout \cup {<<kind, Value(cur), "unsupported">>} ELSE stdout
    /\ dirs' = dirs \cup {PlatformDir(cur)}
    /\ UNCHANGED <<fs, faults>>

\* `if platform not in self.platforms: return False`, the first statement of each
\* writer, before anything touches the filesystem; the three generators print a
\* message first, save_config_json says nothing.
Unsupported(kind, says) ==
    /\ ret' = [ret EXCEPT ![cur, kind] = "False"]
    /\ stdout' = IF says THEN stdout \cup {<<kind, Value(cur), "unsupported">>} ELSE stdout
    /\ UNCHANGED <<fs, dirs, faults>>

\* One of generate_config_header, generate_makefile, generate_cmake_file, called by
\* main() for the current platform: unsupported platform, an exception while the text
\* is built (it leaves the generator and ends main), or the try block.
Generate(kind, content) ==
    /\ pc = kind
    /\ IF cur \notin DOMAIN platforms
       THEN /\ Unsupported(kind, TRUE)
            /\ pc' = After(kind)
       ELSE \E c \in {content} :
                IF c.raised
                THEN /\ ret' = [ret EXCEPT ![cur, kind] = "raised"]
                     /\ pc' = "crashed"
                     /\ UNCHANGED <<fs, dirs, faults, stdout>>
                ELSE /\ WriteArtifact(kind, c.text, TRUE)
                     /\ pc' = After(kind)
    /\ cur' = IF pc' = "header" THEN Succ(cur) ELSE cur
    /\ UNCHANGED <<platforms, args, custom_config>>

GenerateConfigHeader ==
    Generate("header",
             IF cur \in DOMAIN platforms THEN HeaderContent(cur, platforms[cur])
             ELSE [raised |-> FALSE, text |-> Absent])

GenerateMakefile ==
    Generate("makefile",
             IF cur \in DOMAIN platforms THEN MakefileContent(cur, platforms[cur])
             ELSE [raised |-> FALSE, text |-> Absent])

GenerateCmakeFile ==
    Generate("cmake",
             IF cur \in DOMAIN platforms THEN CMakeContent(cur, platforms[cur])
             ELSE [raised |-> FALSE, text |-> Absent])

\* save_config_json, called by main() for the current platform: an unsupported
\* platform returns False without a message; otherwise everything happens in the try
\* block, json.dump writing into the file already opened.
SaveConfigJson ==
    /\ pc = "json"
    /\ IF cur \notin DOMAIN platforms
       THEN Unsupported("json", FALSE)
       ELSE \E c \in {JsonContent(platforms[cur])} :
                WriteArtifact("json", c.text, c.complete)
    /\ pc' = After("json")
    /\ cur' = IF pc' = "header" THEN Succ(cur) ELSE cur
    /\ UNCHANGED <<platforms, args, custom_config>>

\* The process ends, normally or by the uncaught exception: its memory is gone, the
\* files stay.
Exit ==
    /\ pc \in {"exit", "crashed"}
    /\ pc' = "idle"
    /\ platforms' = DefaultPlatforms
    /\ args' = NoArgs
    /\ cur' = NoPlatform
    /\ custom_config' = PyNone
    /\ ret' = NotCalled
    /\ stdout' = {}
    /\ UNCHANGED <<fs, dirs, faults>>

Next ==
    \/ \E a \in CommandLines : Start(a)
    \/ LoadConfig
    \/ GenerateConfigHeader
    \/ GenerateMakefile
    \/ GenerateCmakeFile
    \/ SaveConfigJson
    \/ Exit

Spec == Init /\ [][Next]_vars

(***************************************************************************)
(* The class used as a library: a caller constructs a ConfigGenerator,     *)
(* stores a PlatformConfig it built itself under an identifier, and calls  *)
(* the four writers for that identifier into a fresh output directory.     *)
(***************************************************************************)
\* How many module flags an installed configuration may have set, or cleared.
MaxFlagsSet == 1

\* The assignments of the fourteen ModuleConfig flags tried: at most MaxFlagsSet of
\* them true, or at most MaxFlagsSet of them false.
ModuleAssignments ==
    {[f \in Range(ModuleFields) |-> f \in S] :
        S \in {T \in SUBSET Range(ModuleFields) :
                  \/ Cardinality(T) <= MaxFlagsSet
                  \/ Cardinality(T) >= Len(ModuleFields) - MaxFlagsSet}}

\* A PlatformConfig a caller builds for `platform`: the preset of an STM32 identifier,
\* or for the two identifiers without preset the STM32F1 values under the caller's
\* own identifier and name.
BaseConfig(platform) ==
    IF platform \in DOMAIN DefaultPlatforms THEN DefaultPlatforms[platform]
    ELSE [PresetSTM32F1 EXCEPT
            !.val.platform_type = Member(platform),
            !.val.platform_name = PyStr(IF platform = "RISC_V" THEN "CUSTOM_RV32"
                                        ELSE "CUSTOM_X86")]

\* ModuleConfig(...) with the given flags in place of the configuration's module section.
WithModule(config, flags) ==
    [config EXCEPT !.val.module = FlagSection("ModuleConfig", flags)]

\* The configurations a caller stores under `platform`: any of the three presets as it
\* is, or the platform's base configuration with one of the module assignments.
InstallableConfigs(platform) ==
    {PresetSTM32F4, PresetSTM32F1, PresetSTM32F7}
    \cup {WithModule(BaseConfig(platform), m) : m \in ModuleAssignments}

\* generator = ConfigGenerator(); generator.platforms[platform] = config (config =
\* None: nothing is stored); the writers are then called in main()'s order.
ApiStart(platform, config) ==
    /\ pc = "idle"
    /\ args' = [NoArgs EXCEPT !.platform = platform]
    /\ platforms' = IF config = PyNone THEN DefaultPlatforms
                    ELSE SetItem(DefaultPlatforms, platform, config)
    /\ custom_config' = config
    /\ cur' = platform
    /\ pc' = "header"
    /\ ret' = NotCalled
    /\ stdout' = {}
    /\ UNCHANGED <<fs, dirs, faults>>

\* The caller is done; the next one starts with an empty output directory.
ApiExit ==
    /\ pc = "exit"
    /\ pc' = "idle"
    /\ platforms' = DefaultPlatforms
    /\ args' = NoArgs
    /\ cur' = NoPlatform
    /\ custom_config' = PyNone
    /\ ret' = NotCalled
    /\ stdout' = {}
    /\ fs' = [q \in OutPaths |-> Absent]
    /\ dirs' = {}
    /\ UNCHANGED faults

NextApi ==
    \/ \E q \in Members : \E c \in InstallableConfigs(q) \cup {PyNone} : ApiStart(q, c)
    \/ GenerateConfigHeader
    \/ GenerateMakefile
    \/ GenerateCmakeFile
    \/ SaveConfigJson
    \/ ApiExit

SpecApi == Init /\ [][NextApi]_vars

(***************************************************************************)
(* Properties                                                              *)
(***************************************************************************)
NoPreset == {"RISC_V", "X86_64"}
AllNotCalled == \A p \in Members, k \in Range(Kinds) : ret[p, k] = "not_called"
Called(p, k) == ret[p, k] # "not_called"

\* The platforms a run is asked to generate for.
Targeted ==
    IF args.list_platforms THEN {}
    ELSE IF args.generate_all THEN Members
    ELSE IF args.platform = NoPlatform THEN {}
    ELSE {args.platform}

\* A JSON object's member names and the value of one of them.
Names(j) == {j.members[i][1] : i \in DOMAIN j.members}
Get(j, n) == j.members[CHOOSE i \in DOMAIN j.members : j.members[i][1] = n][2]

\* The JSON document that mirrors a configuration: the top-level fields in
\* declaration order, the identifier as its string value, each section an object of
\* its fields in declaration order.
MirrorSection(name, s) ==
    LET fs_ == Fields(SectionClass[name])
    IN  JObject([i \in DOMAIN fs_ |->
                    <<fs_[i], IF s.val[fs_[i]].py = "int" THEN JNumber(s.val[fs_[i]].val)
                              ELSE JBoolean(s.val[fs_[i]].val)>>], TRUE)
Mirror(c) ==
    JObject([i \in DOMAIN PlatformConfigFields |->
                LET f == PlatformConfigFields[i]
                IN  <<f, IF f \in {"platform_type", "platform_name"} THEN JString(c.val[f].val)
                         ELSE MirrorSection(f, c.val[f])>>], TRUE)

\* C1: every entry of the registry carries the identifier it is stored under, at
\* construction and after every override (compared by the identifier's string value,
\* so that an identifier decoded from JSON counts when it names the key).
C1_IdentifierEqualsKey ==
    \A p \in DOMAIN platforms : platforms[p].val.platform_type.val = Value(p)

\* C2: on a freshly initialized registry a call of any of the four writers for RISC_V
\* or X86_64 returns False, adds no entry to the registry and leaves the files and
\* the directories as they were.
C2_NoPresetCallsFailAndTouchNothing ==
    [][\A k \in Range(Kinds) :
          (/\ pc = k
           /\ cur \in NoPreset
           /\ platforms = DefaultPlatforms
           /\ ret'[cur, k] # ret[cur, k])
          => /\ ret'[cur, k] = "False"
             /\ platforms' = DefaultPlatforms
             /\ cur \notin DOMAIN platforms'
             /\ fs' = fs
             /\ dirs' = dirs]_vars

\* A run for a platform without preset made its four calls: all returned False and
\* nothing of the platform exists on disk.
C2_Witness ==
    \E p \in NoPreset :
        /\ pc = "exit"
        /\ platforms = DefaultPlatforms
        /\ \A k \in Range(Kinds) : ret[p, k] = "False" /\ fs[OutPath(p, k)] = Absent
        /\ PlatformDir(p) \notin dirs

\* C3: with a filesystem that never fails, the file save_config_json wrote for a
\* registered configuration decodes, by load_config_json, to a configuration equal to
\* it field by field.
C3_JsonRoundTrip ==
    faults = 0 =>
        \A p \in DOMAIN platforms :
            Called(p, "json") =>
                \E r \in {load_config_json(fs[OutPath(p, "json")])} :
                    /\ r # PyNone
                    /\ Mirror(r) = Mirror(platforms[p])

\* C4: with a filesystem that never fails, save_config_json returns True for every
\* registered configuration and the file is the JSON object mirroring it: fields in
\* declaration order, the identifier as its declared string value.
C4_SaveSucceedsAndMirrors ==
    faults = 0 =>
        \A p \in DOMAIN platforms :
            Called(p, "json") =>
                /\ ret[p, "json"] = "True"
                /\ fs[OutPath(p, "json")] = JsonFile(Mirror(platforms[p]))

\* What the data model requires of a configuration document: exactly the eight
\* top-level fields, a declared identifier, a string name, and in every section exactly
\* the fields of its class, integers in clock, memory and peripheral, booleans in
\* feature, module and debug.
SectionConforms(name, j) ==
    /\ j.js = "object"
    /\ Names(j) = Range(Fields(SectionClass[name]))
    /\ \A f \in Names(j) :
          Get(j, f).js = IF name \in {"clock", "memory", "peripheral"} THEN "number"
                         ELSE "boolean"
Conforms(f) ==
    /\ f.kind = "json"
    /\ ~HasCut(f.doc)
    /\ f.doc.js = "object"
    /\ Names(f.doc) = Range(PlatformConfigFields)
    /\ Get(f.doc, "platform_type").js = "string"
    /\ Get(f.doc, "platform_type").val \in {Value(m) : m \in Members}
    /\ Get(f.doc, "platform_name").js = "string"
    /\ \A n \in Sections : SectionConforms(n, Get(f.doc, n))

\* C5: load_config_json returns a configuration only for a document that conforms to
\* the data model: a missing or mismatched field, at the top level or inside a
\* section, or an undeclared identifier makes it return None.
C5_StrictDecode ==
    (pc = "header" /\ args.config_file # NoFile /\ AllNotCalled /\ custom_config # PyNone)
        => Conforms(ReadFile(fs, args.config_file))

\* C6: load_config_json returns None for a document without the memory section, and
\* whenever it returns None main() leaves the registry as it was.
C6_RejectedLoadKeepsRegistry ==
    [][(pc = "load" /\ pc' # "load") =>
          \E f \in {ReadFile(fs, args.config_file)} :
              /\ (f.kind = "json" /\ f.doc.js = "object" /\ "memory" \notin Names(f.doc))
                    => custom_config' = PyNone
              /\ custom_config' = PyNone => platforms' = platforms]_vars

\* The document without memory section was read and rejected; the registry is the
\* constructed one.
C6_Witness ==
    /\ pc = "header"
    /\ args.config_file = InputPath("no_memory")
    /\ AllNotCalled
    /\ custom_config = PyNone
    /\ platforms = DefaultPlatforms

\* C7: when a writer returns False although the filesystem did not fail, the output
\* path holds what it held before the call or a complete artifact.
C7_FailureLeavesNoPartialArtifact ==
    [][\A k \in Range(Kinds) :
          (pc = k /\ ret[cur, k] = "not_called" /\ ret'[cur, k] = "False" /\ faults' = faults)
          => \E f \in {fs'[OutPath(cur, k)]} :
                 \/ f = fs[OutPath(cur, k)]
                 \/ f.kind \in {"header", "makefile", "cmake"}
                 \/ f.kind = "json" /\ ~HasCut(f.doc)]_vars

\* C8: when main() ends, each of the four generators was called and returned for
\* every platform the run targets, and each outcome was printed.
C8_AllFourInvokedAndReported ==
    pc \in {"exit", "crashed"} =>
        \A p \in Targeted, k \in Range(Kinds) :
            /\ ret[p, k] \in {"True", "False"}
            /\ \E m \in stdout : m[1] = k /\ m[2] = Value(p)

\* C9: a configuration decoded from --config-file replaces the entry of the requested
\* platform wholesale (every top-level field of the entry is the decoded member of
\* the document, nothing of the preset remains), every other entry stays, and no
\* generator has been called yet.
C9_OverrideWholesale ==
    [][(pc = "load" /\ pc' # "load" /\ custom_config' # PyNone) =>
          \E d \in {ReadFile(fs, args.config_file).doc} :
              /\ AllNotCalled
              /\ DOMAIN platforms' = DOMAIN platforms \cup {cur}
              /\ \A q \in DOMAIN platforms \ {cur} : platforms'[q] = platforms[q]
              /\ platforms'[cur].py = "dataclass"
              /\ DOMAIN platforms'[cur].val = Names(d)
              /\ \A f \in Names(d) : platforms'[cur].val[f] = json_load(Get(d, f))]_vars

\* The STM32F4 preset was overridden by a decoded configuration that differs from it,
\* before the first generator call.
C9_Witness ==
    /\ pc = "header"
    /\ cur = "STM32F4"
    /\ AllNotCalled
    /\ custom_config # PyNone
    /\ platforms["STM32F4"] = custom_config
    /\ custom_config.val.platform_name # PresetSTM32F4.val.platform_name
    /\ \A q \in DOMAIN DefaultPlatforms \ {"STM32F4"} : platforms[q] = DefaultPlatforms[q]

\* What a writer writes for the configuration now registered for p.
Rendered(p, k) ==
    CASE k = "header" -> HeaderContent(p, platforms[p])
      [] k = "makefile" -> MakefileContent(p, platforms[p])
      [] k = "cmake" -> CMakeContent(p, platforms[p])
      [] k = "json" -> [raised |-> FALSE, text |-> JsonContent(platforms[p]).text]

\* C10: with a filesystem that never fails, once a writer has been called for a
\* registered platform, whatever is at its output path was written by that call, the
\* most recent one for the path: nothing of an earlier render, of an earlier
\* configuration, is left there.
C10_LatestRenderOnDisk ==
    faults = 0 =>
        \A p \in DOMAIN platforms, k \in Range(Kinds) :
            Called(p, k) =>
                \/ fs[OutPath(p, k)] = Absent
                \/ \E r \in {Rendered(p, k)} : ~r.raised /\ fs[OutPath(p, k)] = r.text

\* The tools a build script names in its CC, OBJCOPY and SIZE assignments.
ArmTools == {"arm-none-eabi-gcc", "arm-none-eabi-objcopy", "arm-none-eabi-size"}
RiscvTools ==
    {"riscv64-unknown-elf-gcc", "riscv64-unknown-elf-objcopy", "riscv64-unknown-elf-size"}
ToolsOf(makefile) ==
    {makefile.toolchain[i][3] :
        i \in {j \in DOMAIN makefile.toolchain :
                  makefile.toolchain[j][1] \in {"CC", "OBJCOPY", "SIZE"}}}

\* C11: a build script written for STM32F1, STM32F4 or STM32F7 names the
\* arm-none-eabi- tools; one that names a riscv64-unknown-elf- tool was written for
\* RISC_V, whose script names exactly those; and RISC_V has no preset: its entry is
\* the configuration a caller stored.
C11_ToolchainByIdentifier ==
    /\ "RISC_V" \notin DOMAIN DefaultPlatforms
    /\ \A p \in Members :
          \E f \in {fs[OutPath(p, "makefile")]} :
              f.kind = "makefile" =>
                  /\ p \in {"STM32F1", "STM32F4", "STM32F7"} => ToolsOf(f) = ArmTools
                  /\ ToolsOf(f) \cap RiscvTools # {} => p = "RISC_V"
                  /\ p = "RISC_V" =>
                        /\ ToolsOf(f) = RiscvTools
                        /\ custom_config # PyNone
                        /\ platforms[p] = custom_config

\* A build script was written for a configuration stored under RISC_V and names the
\* RISC-V compiler.
C11_Witness ==
    /\ ret["RISC_V", "makefile"] = "True"
    /\ fs[OutPath("RISC_V", "makefile")].kind = "makefile"
    /\ \E i \in DOMAIN fs[OutPath("RISC_V", "makefile")].toolchain :
          fs[OutPath("RISC_V", "makefile")].toolchain[i] = <<"CC", "=", "riscv64-unknown-elf-gcc">>

\* The identity macros the header must end with, per identifier.
IdentityMacros ==
    [STM32F4 |-> {<<"STM32F40_41xxx", 1>>, <<"USE_STDPERIPH_DRIVER", 1>>,
                  <<"HSE_VALUE", 25000000>>},
     STM32F1 |-> {<<"STM32F10X_HD", 1>>, <<"USE_STDPERIPH_DRIVER", 1>>,
                  <<"HSE_VALUE", 8000000>>},
     STM32F7 |-> {<<"STM32F767xx", 1>>, <<"USE_HAL_DRIVER", 1>>,
                  <<"HSE_VALUE", 25000000>>}]

\* C12: the header written for STM32F4, STM32F1 or STM32F7 ends with exactly the
\* identity macros of that identifier, whatever configuration is stored under it, and
\* the header of the STM32F4 preset defines RTOS_HW_SYSTEM_CLOCK_FREQ as 168000000
\* next to STM32F40_41xxx.
C12_PlatformBlockByIdentifier ==
    \A p \in DOMAIN IdentityMacros :
        \E f \in {fs[OutPath(p, "header")]} :
            f.kind = "header" =>
                /\ Range(f.block) = IdentityMacros[p]
                /\ Len(f.block) = Cardinality(IdentityMacros[p])
                /\ (p = "STM32F4" /\ platforms[p] = PresetSTM32F4) =>
                      /\ <<"RTOS_HW_SYSTEM_CLOCK_FREQ", PyInt(168000000)>> \in Range(f.macros)
                      /\ <<"STM32F40_41xxx", 1>> \in Range(f.block)

\* The STM32F1 preset's values were stored under STM32F4: the header carries the
\* 72 MHz clock of the stored configuration and the identity macros of STM32F4.
C12_Witness ==
    /\ platforms["STM32F4"] = PresetSTM32F1
    /\ ret["STM32F4", "header"] = "True"
    /\ fs[OutPath("STM32F4", "header")].kind = "header"
    /\ <<"RTOS_HW_SYSTEM_CLOCK_FREQ", PyInt(72000000)>>
          \in Range(fs[OutPath("STM32F4", "header")].macros)
    /\ <<"STM32F40_41xxx", 1>> \in Range(fs[OutPath("STM32F4", "header")].block)

\* The eight modules of the build script in their fixed order, each with the source
\* file of its `SOURCES +=` line.
EightModules ==
    << <<"power_management_enabled", "rtos/hw/power_management.c">>,
       <<"memory_monitor_enabled", "rtos/hw/memory_monitor.c">>,
       <<"watchdog_enabled", "rtos/hw/watchdog_manager.c">>,
       <<"gpio_abstraction_enabled", "rtos/hw/gpio_abstraction.c">>,
       <<"uart_abstraction_enabled", "rtos/hw/uart_abstraction.c">>,
       <<"spi_abstraction_enabled", "rtos/hw/spi_abstraction.c">>,
       <<"i2c_abstraction_enabled", "rtos/hw/i2c_abstraction.c">>,
       <<"dma_abstraction_enabled", "rtos/hw/dma_abstraction.c">> >>

\* The position of a source file in a table of <<flag, source file>> rows.
Position(table, source) == CHOOSE i \in DOMAIN table : table[i][2] = source

\* `lines` holds, once each and in the table's order, the source files of exactly the
\* rows whose flag is true in the module section.
DrivenBy(lines, table, module) ==
    /\ Range(lines) = {table[i][2] : i \in {j \in DOMAIN table : module.val[table[j][1]].val}}
    /\ \A i, j \in DOMAIN lines :
          i < j => Position(table, lines[i]) < Position(table, lines[j])

\* The configuration with one module flag inverted.
Flip(config, flag) ==
    [config EXCEPT !.val.module.val[flag] = PyBool(~config.val.module.val[flag].val)]

\* C13: in a build script just written, the conditional SOURCES lines are those of the
\* eight modules whose flag is true in the registered configuration, in the fixed
\* order, and inverting any of the other six flags gives the same script.
C13_EightMakefileFlags ==
    \A p \in DOMAIN platforms :
        ret[p, "makefile"] = "True" =>
            \E f \in {fs[OutPath(p, "makefile")]} :
                /\ DrivenBy(f.modules, EightModules, platforms[p].val.module)
                /\ \A g \in Range(ModuleFields) \ {EightModules[i][1] : i \in DOMAIN EightModules} :
                      MakefileContent(p, Flip(platforms[p], g)).text = f

\* A build script was written for a configuration whose only cleared module flag is
\* SPI: seven lines, none for SPI.
C13_Witness ==
    \E p \in DOMAIN platforms :
        /\ ret[p, "makefile"] = "True"
        /\ \A g \in Range(ModuleFields) :
              platforms[p].val.module.val[g].val = (g # "spi_abstraction_enabled")
        /\ Len(fs[OutPath(p, "makefile")].modules) = 7
        /\ "rtos/hw/spi_abstraction.c" \notin Range(fs[OutPath(p, "makefile")].modules)

\* The module flags whose inversion changes the source list of the build description
\* written for p.
CMakeInfluencers(p) ==
    {g \in Range(ModuleFields) :
        CMakeContent(p, Flip(platforms[p], g)).text.sources # fs[OutPath(p, "cmake")].sources}

\* The six modules of the build description in their order.
SixModules ==
    << <<"power_management_enabled", "rtos/hw/power_management.c">>,
       <<"memory_monitor_enabled", "rtos/hw/memory_monitor.c">>,
       <<"watchdog_enabled", "rtos/hw/watchdog_manager.c">>,
       <<"gpio_abstraction_enabled", "rtos/hw/gpio_abstraction.c">>,
       <<"uart_abstraction_enabled", "rtos/hw/uart_abstraction.c">>,
       <<"dma_abstraction_enabled", "rtos/hw/dma_abstraction.c">> >>
Flags(table) == {table[i][1] : i \in DOMAIN table}

\* C14, as stated: in a build description just written, exactly five module flags can
\* change the source list, and they are not the build script's eight.
C14_FiveCMakeFlags ==
    \A p \in DOMAIN platforms :
        ret[p, "cmake"] = "True" =>
            /\ Cardinality(CMakeInfluencers(p)) = 5
            /\ CMakeInfluencers(p) # Flags(EightModules)

\* C14, amended: in a build description just written, exactly six module flags can
\* change the source list (power_management, memory_monitor, watchdog,
\* gpio_abstraction, uart_abstraction, dma_abstraction: the build script's eight
\* without spi_abstraction and i2c_abstraction), and after the fixed sources the list
\* holds the source file of each of the six exactly when its flag is true, in that
\* order.
C14_SixCMakeFlags ==
    \A p \in DOMAIN platforms :
        ret[p, "cmake"] = "True" =>
            \E f \in {fs[OutPath(p, "cmake")]} :
                /\ CMakeInfluencers(p) = Flags(SixModules)
                /\ Flags(SixModules) =
                      Flags(EightModules) \ {"spi_abstraction_enabled", "i2c_abstraction_enabled"}
                /\ SubSeq(f.sources, 1, Len(CMakeBaseSources)) = CMakeBaseSources
                /\ DrivenBy(SubSeq(f.sources, Len(CMakeBaseSources) + 1, Len(f.sources)),
                            SixModules, platforms[p].val.module)

\* Both scripts were written for a configuration whose only cleared module flag is
\* DMA: the build description lists the five other sources after the fixed ones and
\* no DMA source, and the build script has the lines of its seven other modules.
C14_Witness ==
    \E p \in DOMAIN platforms :
        /\ ret[p, "makefile"] = "True"
        /\ ret[p, "cmake"] = "True"
        /\ \A g \in Range(ModuleFields) :
              platforms[p].val.module.val[g].val = (g # "dma_abstraction_enabled")
        /\ Len(fs[OutPath(p, "cmake")].sources) = Len(CMakeBaseSources) + 5
        /\ "rtos/hw/dma_abstraction.c" \notin Range(fs[OutPath(p, "cmake")].sources)
        /\ Len(fs[OutPath(p, "makefile")].modules) = 7

\* The variables a build script assigns: PLATFORM and PLATFORM_NAME in its first
\* lines, then those of the toolchain block, the flag lines and the closing lines.
Declared(makefile) ==
    {"PLATFORM", "PLATFORM_NAME"}
    \cup {makefile.toolchain[i][1] : i \in DOMAIN makefile.toolchain}
    \cup {makefile.flags[i][1] : i \in DOMAIN makefile.flags}
    \cup {makefile.tail[i][1] : i \in DOMAIN makefile.tail}

\* The variables a build script's rules and recipes refer to.
Referenced(makefile) == UNION {makefile.rules[i].refs : i \in DOMAIN makefile.rules}

\* C15: a build script written for any identifier with a registry entry has the
\* targets all, clean and info, and assigns every variable its rules and recipes refer
\* to, CC, OBJCOPY, SIZE, CPU, CFLAGS, INCLUDES, SOURCES, FWLIB_SOURCES, OBJECTS,
\* LDSCRIPT, LDFLAGS, TARGET and PLATFORM_NAME among them.
C15_TargetsAndDeclaredVariables ==
    \A p \in DOMAIN platforms :
        ret[p, "makefile"] = "True" =>
            \E f \in {fs[OutPath(p, "makefile")]} :
                /\ {"all", "clean", "info"} \subseteq {f.rules[i].target : i \in DOMAIN f.rules}
                /\ Referenced(f) \subseteq Declared(f)
                /\ {"CC", "OBJCOPY", "SIZE", "CPU", "CFLAGS", "INCLUDES", "SOURCES",
                    "FWLIB_SOURCES", "OBJECTS", "LDSCRIPT", "LDFLAGS", "TARGET",
                    "PLATFORM_NAME"} \subseteq Declared(f)

\* The two scripts as written for the STM32F4 preset.
MakefileOfF4 == MakefileContent("STM32F4", PresetSTM32F4).text
CMakeOfF4 == CMakeContent("STM32F4", PresetSTM32F4).text

\* C16: whatever the identifier and the configuration, a build script and a build
\* description just written carry the STM32F4 identity: the defines -DSTM32F40_41xxx
\* -DUSE_STDPERIPH_DRIVER -DHSE_VALUE=25000000, the STM32F4xx CMSIS include path, the
\* stm32f4xx firmware-library sources, the startup file startup_stm32f407xx and the
\* link script STM32F407VGTx_FLASH.ld, all as in the scripts of the STM32F4 preset.
C16_SameIdentityInBothScripts ==
    \A p \in DOMAIN platforms :
        /\ ret[p, "makefile"] = "True" =>
              \E f \in {fs[OutPath(p, "makefile")]} :
                  /\ <<"CFLAGS", "+=", "-DSTM32F40_41xxx -DUSE_STDPERIPH_DRIVER -DHSE_VALUE=25000000">>
                        \in Range(f.flags)
                  /\ <<"INCLUDES", "+=", "-Ifwlib/inc -Ifwlib/CMSIS/STM32F4xx/Include -Ifwlib/CMSIS/Include">>
                        \in Range(f.flags)
                  /\ <<"OBJECTS", "=", "$(SOURCES:.c=.o) $(FWLIB_SOURCES:.c=.o) startup_stm32f407xx.o">>
                        \in Range(f.tail)
                  /\ <<"LDSCRIPT", "=", "STM32F407VGTx_FLASH.ld">> \in Range(f.tail)
                  /\ f.flags = MakefileOfF4.flags
                  /\ f.tail = MakefileOfF4.tail
        /\ ret[p, "cmake"] = "True" =>
              \E f \in {fs[OutPath(p, "cmake")]} :
                  /\ <<"CMAKE_C_FLAGS", "${CMAKE_C_FLAGS} -DSTM32F40_41xxx -DUSE_STDPERIPH_DRIVER -DHSE_VALUE=25000000">>
                        \in Range(f.flags)
                  /\ "fwlib/CMSIS/STM32F4xx/Include" \in Range(f.include_directories)
                  /\ "startup_stm32f407xx.s" \in Range(f.tail.executable)
                  /\ f.flags = CMakeOfF4.flags
                  /\ f.include_directories = CMakeOfF4.include_directories
                  /\ f.fwlib_sources = CMakeOfF4.fwlib_sources
                  /\ f.tail = CMakeOfF4.tail

\* The three artifacts were written for STM32F1: the header ends with the STM32F1
\* identity macros while both scripts define STM32F40_41xxx.
C16_Witness ==
    /\ \A k \in {"header", "makefile", "cmake"} : ret["STM32F1", k] = "True"
    /\ <<"STM32F10X_HD", 1>> \in Range(fs[OutPath("STM32F1", "header")].block)
    /\ <<"HSE_VALUE", 8000000>> \in Range(fs[OutPath("STM32F1", "header")].block)
    /\ <<"CFLAGS", "+=", "-DSTM32F40_41xxx -DUSE_STDPERIPH_DRIVER -DHSE_VALUE=25000000">>
          \in Range(fs[OutPath("STM32F1", "makefile")].flags)
    /\ <<"CMAKE_C_FLAGS", "${CMAKE_C_FLAGS} -DSTM32F40_41xxx -DUSE_STDPERIPH_DRIVER -DHSE_VALUE=25000000">>
          \in Range(fs[OutPath("STM32F1", "cmake")].flags)

====
